---- MODULE Spec2Model ----
(***************************************************************************)
(* Order-status tracking facade (bella-order-status-api).                  *)
(*                                                                         *)
(* The module models                                                       *)
(*   - the step derivation functions (generateSteps) of every handler      *)
(*     revision, as operators;                                             *)
(*   - the in-memory handler of src/api/order-status.ts (GET / POST /      *)
(*     OPTIONS / other methods), split at its await points, together with  *)
(*     the external order platform it reads and tags (Spec), and the       *)
(*     shopify-orders handler of the same file (SpecApi);                  *)
(*   - the auto-create handler of src/pages/index.tsx (SpecAuto);          *)
(*   - the KV-backed handlers of src/unnamed/part_002 and part_000, split  *)
(*     at their await points (SpecKv).                                     *)
(*                                                                         *)
(* JavaScript strings that the code takes apart (order numbers) are        *)
(* sequences of one-character strings; other strings are TLA+ strings.     *)
(***************************************************************************)
EXTENDS Integers, Sequences, FiniteSets, TLC

VARIABLES
    orderLinks,   \* the in-memory store: key (order number) -> OrderLinkData
    shopifyTags,  \* external platform: order name (no '#') -> its tag list
    creds,        \* SHOPIFY_STORE and SHOPIFY_ACCESS_TOKEN are both set
    inflight,     \* request slot -> the continuation of a suspended handler
    resp,         \* the response sent last (with bookkeeping fields)
    nPosts,       \* number of POST requests handled so far (bounded)
    rt,           \* bookkeeping: the last merge, if it set check_delivery
    gs,           \* the last generateSteps call made by SpecSteps
    orders,       \* auto-create handler: the in-memory store, key -> Order
    objectPrototype, \* auto-create handler: the properties the handler has set
                  \* on Object.prototype (reached through the store's "__proto__")
    acResp,       \* auto-create handler: the response sent last
    kvHandler,    \* KV handlers: which of the two handlers is deployed
    kvStore,      \* KV handlers: the KV store, order number -> OrderLinkData
    kvInflight,   \* KV handlers: request slot -> continuation of a suspended handler
    kvResp,       \* KV handlers: the response sent last
    nKvPosts      \* KV handlers: number of POST requests begun so far (bounded)

\* the variables of the auto-create handler and of the KV handlers
autoVars == <<orders, objectPrototype, acResp>>
kvVars == <<kvHandler, kvStore, kvInflight, kvResp, nKvPosts>>

vars == <<orderLinks, shopifyTags, creds, inflight, resp, nPosts, rt, gs, autoVars, kvVars>>

(***************************************************************************)
(* Bounds                                                                  *)
(***************************************************************************)
\* number of requests that can be suspended at an await at the same time
MaxInFlight == 2
\* number of POST requests a behaviour contains
MaxPosts == 2

Slots == 1..MaxInFlight

(***************************************************************************)
(* JavaScript values                                                       *)
(***************************************************************************)
undefined == "<undefined>"
null == "<null>"

\* JavaScript truthiness of a string-or-undefined-or-null value
Truthy(v) == v \notin {undefined, null, ""}

\* a || b
OrElse(a, b) == IF Truthy(a) THEN a ELSE b

(***************************************************************************)
(* Order-number strings: sequences of characters                           *)
(***************************************************************************)
\* String(undefined), what decodeURIComponent makes of a missing argument
UndefinedStr == <<"u", "n", "d", "e", "f", "i", "n", "e", "d">>

\* the byte a %XY escape stands for, for the hex digits the inputs use
PercentByte ==
    (<<"1", "1">> :> "\\x11") @@ (<<"1", "2">> :> "\\x12") @@ (<<"1", "3">> :> "\\x13") @@
    (<<"2", "1">> :> "!")     @@ (<<"2", "2">> :> "\"")    @@ (<<"2", "3">> :> "#") @@
    (<<"3", "1">> :> "1")     @@ (<<"3", "2">> :> "2")     @@ (<<"3", "3">> :> "3")

\* decodeURIComponent: [threw |-> TRUE] stands for the URIError it throws on a
\* malformed escape
RECURSIVE decodeURIComponent(_)
decodeURIComponent(s) ==
    IF s = <<>> THEN [threw |-> FALSE, value |-> <<>>]
    ELSE IF Head(s) # "%"
         THEN LET r == decodeURIComponent(Tail(s))
              IN  [threw |-> r.threw,
                   value |-> IF r.threw THEN <<>> ELSE <<Head(s)>> \o r.value]
    ELSE IF Len(s) < 3 \/ <<s[2], s[3]>> \notin DOMAIN PercentByte
         THEN [threw |-> TRUE, value |-> <<>>]
    ELSE LET r == decodeURIComponent(SubSeq(s, 4, Len(s)))
         IN  [threw |-> r.threw,
              value |-> IF r.threw THEN <<>>
                        ELSE <<PercentByte[<<s[2], s[3]>>]>> \o r.value]

\* s.startsWith('#')
startsWithHash(s) == Len(s) > 0 /\ s[1] = "#"

\* s.replace('#', ''): removes the first '#' only
RECURSIVE replaceHash(_)
replaceHash(s) ==
    IF s = <<>> THEN <<>>
    ELSE IF Head(s) = "#" THEN Tail(s)
    ELSE <<Head(s)>> \o replaceHash(Tail(s))

(***************************************************************************)
(* Step derivation                                                         *)
(***************************************************************************)
allSteps == <<"upload_photo", "in_progress", "check_delivery", "check_revision", "order_complete">>

\* a search that answers the first position for a value that is absent
indexOf_clamped(arr, x) ==
    IF \E i \in 1..Len(arr) : arr[i] = x
    THEN (CHOOSE i \in 1..Len(arr) : arr[i] = x /\ \A j \in 1..(i - 1) : arr[j] # x) - 1
    ELSE 0

\* Array.prototype.indexOf, 0-based, -1 when absent
indexOf(arr, x) ==
    IF \E i \in 1..Len(arr) : arr[i] = x
    THEN (CHOOSE i \in 1..Len(arr) : arr[i] = x /\ \A j \in 1..(i - 1) : arr[j] # x) - 1
    ELSE -1

\* a step that is never in progress: the current stage shows as completed
stepStatus_noCurrent(statusIndex, i) ==
    IF statusIndex >= i THEN "completed" ELSE "pending"

\* statusIndex === i ? 'in_progress' : (statusIndex > i ? 'completed' : 'pending')
stepStatus(statusIndex, i) ==
    IF statusIndex = i THEN "in_progress"
    ELSE IF statusIndex > i THEN "completed" ELSE "pending"

\* statusIndex >= 0 ? 'completed' : 'pending'   (first step of three variants)
firstStepStatus(statusIndex) ==
    IF statusIndex >= 0 THEN "completed" ELSE "pending"

Step(id, label, status, clickable, url) ==
    [id |-> id, label |-> label, status |-> status, clickable |-> clickable, url |-> url]

\* src/api/order-status.ts: generateSteps(currentStatus, urls)
generateSteps(currentStatus, urls) ==
    LET statusIndex == indexOf(allSteps, currentStatus)
    IN  << Step("upload_photo",   "Upload photo",   stepStatus(statusIndex, 0), TRUE,  urls.upload),
           Step("in_progress",    "In progress",    stepStatus(statusIndex, 1), FALSE, null),
           Step("check_delivery", "Check delivery", stepStatus(statusIndex, 2), TRUE,  urls.delivery),
           Step("check_revision", "Check revision", stepStatus(statusIndex, 3), TRUE,  urls.revision),
           Step("order_complete", "Order complete", stepStatus(statusIndex, 4), FALSE, null) >>

\* auto-create handler: the tables inside generateSteps(currentStatus)
stepLabels ==
    [upload_photo |-> "Upload photo", in_progress |-> "In progress",
     check_delivery |-> "Check delivery", check_revision |-> "Check revision",
     order_complete |-> "Order complete"]

clickableSteps == {"upload_photo", "check_delivery", "check_revision"}

urlMap ==
    [upload_photo   |-> "https://lookbook.bellavirtualstaging.com/upload",
     check_delivery |-> "https://lookbook.bellavirtualstaging.com/delivery",
     check_revision |-> "https://lookbook.bellavirtualstaging.com/revision"]

\* the index comparison of the auto-create variant's map callback
mapStepStatus(index, currentIndex) ==
    IF index < currentIndex THEN "completed"
    ELSE IF index = currentIndex THEN "in_progress"
    ELSE "pending"

\* auto-create handler: generateSteps(currentStatus)
generateSteps_autoCreate(currentStatus) ==
    LET currentIndex == indexOf(allSteps, currentStatus)
    IN  [k \in 1..Len(allSteps) |->
            LET stepId == allSteps[k]
                index == k - 1
                isClickable == stepId \in clickableSteps
            IN  Step(stepId, stepLabels[stepId], mapStepStatus(index, currentIndex), isClickable,
                     IF isClickable /\ index <= currentIndex THEN urlMap[stepId] ELSE null)]

baseUrl == "https://lookbook.bellavirtualstaging.com/projects"

\* project_id handler (in memory): generateUrlForStatus(status, projectId, revisionNumber)
generateUrlForStatus(status, projectId, revisionNumber) ==
    IF ~Truthy(projectId) THEN null
    ELSE IF status = "upload_photo"   THEN baseUrl \o "?page=" \o projectId \o "/upload"
    ELSE IF status = "check_delivery" THEN baseUrl \o "?page=" \o projectId \o "/delivery"
    ELSE IF status = "check_revision"
         THEN baseUrl \o "?page=" \o projectId \o "/delivery?revision=" \o ToString(revisionNumber)
    ELSE null

\* project_id handler (in memory): generateSteps(currentStatus, projectId, revisionNumber)
generateSteps_projectId(currentStatus, projectId, revisionNumber) ==
    LET statusIndex == indexOf(allSteps, currentStatus)
    IN  << Step("upload_photo", "Upload photo", firstStepStatus(statusIndex), TRUE,
                IF statusIndex >= 0 THEN generateUrlForStatus("upload_photo", projectId, 1) ELSE null),
           Step("in_progress", "In progress", stepStatus(statusIndex, 1), FALSE, null),
           Step("check_delivery", "Check delivery", stepStatus(statusIndex, 2), TRUE,
                IF statusIndex >= 2 THEN generateUrlForStatus("check_delivery", projectId, 1) ELSE null),
           Step("check_revision", "Check revision", stepStatus(statusIndex, 3), TRUE,
                IF statusIndex >= 3
                THEN generateUrlForStatus("check_revision", projectId, revisionNumber) ELSE null),
           Step("order_complete", "Order complete", stepStatus(statusIndex, 4), FALSE, null) >>

\* KV project_id handler: generateURLForStatus(status, projectId, revisionNumber)
generateURLForStatus(status, projectId, revisionNumber) ==
    IF status = "upload_photo"        THEN baseUrl \o "?page=" \o projectId \o "/upload"
    ELSE IF status = "check_delivery" THEN baseUrl \o "?page=" \o projectId \o "/delivery"
    ELSE IF status = "check_revision"
         THEN baseUrl \o "?page=" \o projectId \o "/delivery?revision=" \o ToString(revisionNumber)
    ELSE baseUrl \o "?page=" \o projectId \o "/upload"

\* KV project_id handler: generateSteps(currentStatus, projectId, revisionNumber)
generateSteps_kvProjectId(currentStatus, projectId, revisionNumber) ==
    LET statusIndex == indexOf(allSteps, currentStatus)
    IN  << Step("upload_photo", "Upload photo", firstStepStatus(statusIndex), TRUE,
                IF statusIndex >= 0 /\ Truthy(projectId)
                THEN generateURLForStatus("upload_photo", projectId, 1) ELSE null),
           Step("in_progress", "In progress", stepStatus(statusIndex, 1), FALSE, null),
           Step("check_delivery", "Check delivery", stepStatus(statusIndex, 2), TRUE,
                IF statusIndex >= 2 /\ Truthy(projectId)
                THEN generateURLForStatus("check_delivery", projectId, 1) ELSE null),
           Step("check_revision", "Check revision", stepStatus(statusIndex, 3), TRUE,
                IF statusIndex >= 3 /\ Truthy(projectId)
                THEN generateURLForStatus("check_revision", projectId, revisionNumber) ELSE null),
           Step("order_complete", "Order complete", stepStatus(statusIndex, 4), FALSE, null) >>

\* url_link handlers: generateSteps(currentStatus, urlLink)
generateSteps_urlLink(currentStatus, urlLink) ==
    LET statusIndex == indexOf(allSteps, currentStatus)
    IN  << Step("upload_photo", "Upload photo", firstStepStatus(statusIndex), TRUE,
                IF statusIndex >= 0 /\ Truthy(urlLink) THEN urlLink ELSE null),
           Step("in_progress", "In progress", stepStatus(statusIndex, 1), FALSE, null),
           Step("check_delivery", "Check delivery", stepStatus(statusIndex, 2), TRUE,
                IF statusIndex >= 2 /\ Truthy(urlLink) THEN urlLink ELSE null),
           Step("check_revision", "Check revision", stepStatus(statusIndex, 3), TRUE,
                IF statusIndex >= 3 /\ Truthy(urlLink) THEN urlLink ELSE null),
           Step("order_complete", "Order complete", stepStatus(statusIndex, 4), FALSE, null) >>

(***************************************************************************)
(* The external order platform                                             *)
(***************************************************************************)
\* the tag the completion hook adds
MarkerTag == "bella-order-complete"

\* undefined, for a value that is an order-number string when present
NoOrder == <<undefined>>

TruthyStr(s) == s # NoOrder /\ s # <<>>

\* names (without '#') of the orders the platform holds
ShopifyNames == {<<"1">>}

\* tag lists an order may carry before the first request
InitialTags == {<<"vip", "rush">>}

\* how a network call ends: a 2xx response, a non-OK response, a thrown error
NetOutcomes == {"ok", "http_error", "throw"}

\* status fields of an external order, as the platform reports them at a fetch
FinancialStatuses == {"paid"}
FulfillmentStatuses == {null, "fulfilled"}

nullOrder ==
    [found |-> FALSE, name |-> NoOrder, id |-> NoOrder, tags |-> <<>>,
     financial_status |-> undefined, fulfillment_status |-> undefined,
     line_item_name |-> undefined]

\* The platform reports an order's tags as one string, the tags joined by
\* ', ', and takes them back in that form. A tag string is kept as the
\* sequence of its tags and separators: "vip, rush" is <<"vip", ", ", "rush">>.
TagSeparator == ", "

\* Array.prototype.join(', ')
RECURSIVE joinTags(_)
joinTags(tagList) ==
    IF tagList = <<>> THEN <<>>
    ELSE IF Len(tagList) = 1 THEN <<tagList[1]>>
    ELSE <<tagList[1], TagSeparator>> \o joinTags(Tail(tagList))

\* String.prototype.split(', '): the pieces between the separators; the
\* empty string gives [''], two separators in a row give an empty piece
RECURSIVE splitTags(_)
splitTags(tagString) ==
    IF tagString = <<>> THEN <<"">>
    ELSE IF Head(tagString) = TagSeparator THEN <<"">> \o splitTags(Tail(tagString))
    ELSE IF Len(tagString) = 1 THEN <<tagString[1]>>
    ELSE <<tagString[1]>> \o splitTags(Tail(Tail(tagString)))

\* the tags the platform stores for the tag string of a PUT: its non-empty pieces
platformTags(tagString) ==
    IF tagString = <<>> THEN <<>>
    ELSE SelectSeq(splitTags(tagString), LAMBDA t : t # "")

\* a fetch that goes to the network whether or not the credentials are set
fetchShopifyOrder_anyCreds(orderNumber, hasCreds, tags, net, fin, ful) ==
    LET orderName == replaceHash(orderNumber)
    IN  IF net = "ok" /\ orderName \in DOMAIN tags
        THEN [found |-> TRUE, name |-> <<"#">> \o orderName, id |-> orderName,
              tags |-> joinTags(tags[orderName]),
              financial_status |-> fin, fulfillment_status |-> ful,
              line_item_name |-> "Virtual Staging"]
        ELSE [found |-> FALSE, name |-> NoOrder, id |-> NoOrder, tags |-> <<>>,
              financial_status |-> undefined, fulfillment_status |-> undefined,
              line_item_name |-> undefined]

\* fetchShopifyOrder(orderNumber): the order the platform returns, or null.
\* hasCreds: both environment variables set; net: how the call ends;
\* fin, ful: the status fields the platform reports.
fetchShopifyOrder(orderNumber, hasCreds, tags, net, fin, ful) ==
    LET orderName == replaceHash(orderNumber)
    IN  IF ~hasCreds THEN nullOrder
        ELSE IF net # "ok" THEN nullOrder
        ELSE IF orderName \in DOMAIN tags
             THEN [found |-> TRUE, name |-> <<"#">> \o orderName, id |-> orderName,
                   tags |-> joinTags(tags[orderName]),
                   financial_status |-> fin, fulfillment_status |-> ful,
                   line_item_name |-> "Virtual Staging"]
        ELSE nullOrder

\* a reading of the tag string that finds no tag
existingTagsOf_none(order) == <<>>

\* order.tags ? order.tags.split(', ').map(t => t.trim()) : []
\* (the platform's tags carry no surrounding whitespace: trim leaves them)
existingTagsOf(order) == IF order.tags = <<>> THEN <<>> ELSE splitTags(order.tags)

\* a check that never finds the tag
includesTag_never(existingTags, tag) == FALSE

\* existingTags.includes(tag)
includesTag(existingTags, tag) == \E i \in 1..Len(existingTags) : existingTags[i] = tag

\* number of occurrences of tag in a tag list
RECURSIVE CountTag(_, _)
CountTag(tagList, tag) ==
    IF tagList = <<>> THEN 0
    ELSE (IF Head(tagList) = tag THEN 1 ELSE 0) + CountTag(Tail(tagList), tag)

(***************************************************************************)
(* src/api/order-status.ts: requests                                       *)
(***************************************************************************)
\* The stores are plain objects ({}), so store[key] also finds what every
\* object inherits from Object.prototype; "__proto__" names that prototype.
ProtoKey == <<"_", "_", "p", "r", "o", "t", "o", "_", "_">>
ObjectPrototypeKeys == {ProtoKey}

\* values of req.query.order (GET); NoOrder: the parameter is missing
GetOrderParams ==
    {NoOrder, <<>>, <<"1">>, <<"#", "1">>, <<"%", "2", "3", "1">>, <<"#", "2">>, <<"%">>,
     ProtoKey}

\* values of req.body.current_status: missing, the five stages, and a
\* string that is no stage
StatusValues ==
    {undefined, "upload_photo", "in_progress", "check_delivery", "check_revision",
     "order_complete", "shipped"}

\* (url, url_link) pairs of a request: neither, both, url_link alone
LinkValues == {<<undefined, undefined>>, <<"u", "v">>, <<undefined, "v">>}

Body(order_number, current_status, link, product_name) ==
    [order_number |-> order_number, current_status |-> current_status,
     url |-> link[1], url_link |-> link[2], product_name |-> product_name]

\* values of req.body.order_number (POST) that the webhook sends: no '#'
WebhookOrderNumbers == {<<"1">>}

\* an order the external platform does not hold
UnknownOrderNumbers == {<<"2">>}

\* further values of req.body.order_number: with '#', percent-encoded,
\* missing (NoOrder), empty, malformed escape
OtherOrderNumbers == {<<"#", "1">>, <<"%", "2", "3", "1">>, NoOrder, <<>>, <<"%">>}

\* request bodies: every combination of fields for the webhook's order
\* numbers, a status-less and a completing update for the unknown order,
\* and a status update for each of the other order numbers
PostBodies ==
    {Body(n, s, l, pn) : n \in WebhookOrderNumbers, s \in StatusValues,
                         l \in LinkValues, pn \in {undefined, "X"}}
    \cup
    {Body(n, s, <<undefined, undefined>>, undefined) :
        n \in UnknownOrderNumbers, s \in {undefined, "order_complete"}}
    \cup
    {Body(n, "check_delivery", <<undefined, undefined>>, undefined) : n \in OtherOrderNumbers}
    \cup
    {Body(n, "order_complete", <<"u", "v">>, "X") : n \in {NoOrder, <<>>}}

(***************************************************************************)
(* src/api/order-status.ts: responses and continuations                    *)
(***************************************************************************)
\* no record
NoRecord ==
    [url_upload |-> undefined, url_delivery |-> undefined, url_revision |-> undefined,
     current_status |-> undefined, product_name |-> undefined]

\* the truthiness of orderLinks[key]
hasLinkData(links, key) == key \in DOMAIN links \/ key \in ObjectPrototypeKeys

\* orderLinks[key] when it is truthy: the record stored under key, or else
\* the inherited object, which has none of OrderLinkData's properties
linkDataOf(links, key) == IF key \in DOMAIN links THEN links[key] ELSE NoRecord

\* A response: status code, body fields (undefined / NoOrder / <<>> when the
\* body has no such field) and, below the line, bookkeeping about the
\* request it answers.
BlankResp ==
    [handler |-> "order-status", method |-> "none", status |-> 0, kind |-> "none",
     error |-> undefined, hasMessage |-> FALSE,
     success |-> FALSE, shopify_tag_added |-> FALSE,
     order_number |-> NoOrder, order_id |-> NoOrder,
     current_status |-> undefined, url_link |-> undefined, product_name |-> undefined,
     financial_status |-> undefined, fulfillment_status |-> undefined,
     steps |-> <<>>,
     count |-> 0, orders |-> <<>>,   \* the listing of the shopify-orders handler
     \* ----
     upstream |-> "none",        \* the listing's fetch: "ok", or "unavailable"
     ext |-> nullOrder,          \* POST: the external order the response was built from
     key |-> NoOrder,            \* the store key the handler used
     stored |-> NoRecord,        \* the record under that key when the response is sent
     reqStatus |-> undefined,    \* the request's current_status
     reqProduct |-> undefined,   \* the request's product_name
     mergedStatus |-> undefined, \* the stored status right after this POST's merge
     existed |-> FALSE,          \* the record existed before this POST
     tagSuccess |-> "none",      \* what addShopifyOrderTag returned, "none" if not called
     overwritten |-> FALSE,      \* another POST merged into the record after this one's merge
     paramMissing |-> FALSE,     \* the GET had no `order` query parameter
     follows |-> FALSE]          \* a GET begun after a check_delivery POST of the same
                                 \* order number had returned 200, no write in between

\* the local variables of a handler suspended at an await
Idle ==
    [pc |-> "idle", key |-> NoOrder, reqStatus |-> undefined, reqProduct |-> undefined,
     mergedStatus |-> undefined, existed |-> FALSE, tagSuccess |-> "none",
     newTags |-> <<>>, overwritten |-> FALSE, follows |-> FALSE,
     paramMissing |-> FALSE]

NoMerge == [raw |-> NoOrder, slot |-> 0, returned |-> FALSE]

ErrorResp(method, status, error) ==
    [BlankResp EXCEPT !.method = method, !.status = status, !.kind = "error",
                      !.error = error, !.hasMessage = TRUE]

\* an exception outside the handler's try blocks: the platform answers 500 itself
CrashResp(method) ==
    [BlankResp EXCEPT !.method = method, !.status = 500, !.kind = "crash"]

\* a view that reports the platform's own status once an order is fetched
viewStatus_external(linkData, shopifyOrder) ==
    IF shopifyOrder.found THEN shopifyOrder.fulfillment_status ELSE linkData.current_status

\* current_status: linkData.current_status, in both branches of both paths
viewStatus(linkData, shopifyOrder) == linkData.current_status

\* the Order object both paths build (GET "let order: Order", POST "Build response")
orderView(orderNumber, linkData, shopifyOrder, urlLink) ==
    LET current_status == viewStatus(linkData, shopifyOrder)
    IN  [order_number |-> IF shopifyOrder.found THEN shopifyOrder.name ELSE orderNumber,
         order_id |-> IF shopifyOrder.found THEN shopifyOrder.id ELSE replaceHash(orderNumber),
         current_status |-> current_status,
         url_link |-> urlLink,
         product_name |-> IF shopifyOrder.found
                          THEN OrElse(linkData.product_name, shopifyOrder.line_item_name)
                          ELSE linkData.product_name,
         financial_status |-> IF shopifyOrder.found THEN shopifyOrder.financial_status ELSE undefined,
         fulfillment_status |-> IF shopifyOrder.found THEN shopifyOrder.fulfillment_status ELSE undefined,
         steps |-> generateSteps(current_status,
                                 [upload |-> linkData.url_upload,
                                  delivery |-> linkData.url_delivery,
                                  revision |-> linkData.url_revision])]

WithOrder(r, order) ==
    [r EXCEPT !.order_number = order.order_number, !.order_id = order.order_id,
              !.current_status = order.current_status, !.url_link = order.url_link,
              !.product_name = order.product_name,
              !.financial_status = order.financial_status,
              !.fulfillment_status = order.fulfillment_status,
              !.steps = order.steps]

\* GET: res.status(200).json(order)
getResponse(c, links, shopifyOrder) ==
    LET linkData == linkDataOf(links, c.key)
        order == orderView(c.key, linkData, shopifyOrder, linkData.url_delivery)
    IN  [WithOrder(BlankResp, order) EXCEPT
            !.method = "GET", !.status = 200, !.kind = "order",
            !.key = c.key, !.stored = linkData, !.follows = c.follows,
            !.paramMissing = c.paramMissing]

\* POST: "Determine which URL to return based on current status"
urlLinkForResponse(linkData) ==
    IF linkData.current_status = "upload_photo" THEN linkData.url_upload
    ELSE IF linkData.current_status = "check_delivery" THEN linkData.url_delivery
    ELSE IF linkData.current_status = "check_revision" THEN linkData.url_revision
    ELSE linkData.url_delivery

\* POST: the response's shopify_tag_added
shopifyTagAdded(current_status, tagSuccess) == current_status = "order_complete"

\* POST: res.status(200).json({success, message, shopify_tag_added, order})
postResponse(c, links, shopifyOrder) ==
    LET linkData == links[c.key]
        order == orderView(c.key, linkData, shopifyOrder, urlLinkForResponse(linkData))
    IN  [WithOrder(BlankResp, order) EXCEPT
            !.method = "POST", !.status = 200, !.kind = "update",
            !.success = TRUE, !.hasMessage = TRUE,
            !.shopify_tag_added = shopifyTagAdded(c.reqStatus, c.tagSuccess),
            !.ext = [shopifyOrder EXCEPT !.tags = <<>>],
            !.key = c.key, !.stored = links[c.key], !.reqStatus = c.reqStatus,
            !.reqProduct = c.reqProduct,
            !.mergedStatus = c.mergedStatus, !.existed = c.existed,
            !.tagSuccess = c.tagSuccess, !.overwritten = c.overwritten]

Send(r) == resp' = r

(***************************************************************************)
(* src/api/order-status.ts: the handler                                    *)
(***************************************************************************)
\* GET: decodeURIComponent(req.query.order as string)
getOrderNumber(query) ==
    decodeURIComponent(IF query = NoOrder THEN UndefinedStr ELSE query)

\* a normalisation that prefixes '#' without testing that there is an order
\* number: '' becomes '#', and undefined.startsWith throws
postOrderNumber_alwaysPrefix(rawOrderNumber) ==
    IF rawOrderNumber = NoOrder THEN [threw |-> TRUE, value |-> NoOrder]
    ELSE LET dec == IF TruthyStr(rawOrderNumber) THEN decodeURIComponent(rawOrderNumber)
                    ELSE [threw |-> FALSE, value |-> rawOrderNumber]
         IN  IF dec.threw THEN dec
             ELSE IF ~startsWithHash(dec.value)
                  THEN [threw |-> FALSE, value |-> <<"#">> \o dec.value]
             ELSE dec

\* POST: "Handle order number formatting" and "Auto-add # if not present"
postOrderNumber(rawOrderNumber) ==
    LET dec == IF TruthyStr(rawOrderNumber) THEN decodeURIComponent(rawOrderNumber)
               ELSE [threw |-> FALSE, value |-> rawOrderNumber]
    IN  IF dec.threw THEN dec
        ELSE IF TruthyStr(dec.value) /\ ~startsWithHash(dec.value)
             THEN [threw |-> FALSE, value |-> <<"#">> \o dec.value]
        ELSE dec

\* an update that resets the status when the request has none
updateStatus_reset(record, current_status) ==
    [record EXCEPT !.current_status = OrElse(current_status, "upload_photo")]

\* the status update that is lost: the record keeps its old status
updateStatus_lost(record, current_status) == record

\* POST: "Update status"
updateStatus(record, current_status) ==
    IF Truthy(current_status) THEN [record EXCEPT !.current_status = current_status]
    ELSE record

\* a merge that rebuilds the record from the request alone
mergeOrder_rebuild(links, order_number, body) ==
    [k \in DOMAIN links \cup {order_number} |->
        IF k = order_number
        THEN [url_upload |-> "", url_delivery |-> "", url_revision |-> "",
              current_status |-> OrElse(body.current_status, "upload_photo"),
              product_name |-> body.product_name]
        ELSE links[k]]

\* a merge that assigns a new store holding the request's record alone
mergeOrder_replaceStore(links, order_number, body) ==
    order_number :>
        [url_upload |-> "", url_delivery |-> "", url_revision |-> "",
         current_status |-> OrElse(body.current_status, "upload_photo"),
         product_name |-> body.product_name]

\* a merge that stores the link as the delivery URL whatever the status is
mergeOrder_deliveryUrl(links, order_number, body) ==
    LET linkUrl == OrElse(body.url, body.url_link)
        l1 == IF order_number \in DOMAIN links THEN links
              ELSE links @@ (order_number :>
                       [url_upload |-> "", url_delivery |-> "", url_revision |-> "",
                        current_status |-> OrElse(body.current_status, "upload_photo"),
                        product_name |-> body.product_name])
        r2 == updateStatus(l1[order_number], body.current_status)
        r3 == IF Truthy(body.product_name) THEN [r2 EXCEPT !.product_name = body.product_name] ELSE r2
    IN  [l1 EXCEPT ![order_number] =
            IF Truthy(linkUrl) THEN [r3 EXCEPT !.url_delivery = linkUrl] ELSE r3]

\* POST: "Create or update order entry" ... "Update URL based on status"
mergeOrder(links, order_number, body) ==
    LET linkUrl == OrElse(body.url, body.url_link)
        current_status == body.current_status
        l1 == IF order_number \in DOMAIN links THEN links
              ELSE links @@ (order_number :>
                       [url_upload |-> "", url_delivery |-> "", url_revision |-> "",
                        current_status |-> OrElse(current_status, "upload_photo"),
                        product_name |-> body.product_name])
        r1 == l1[order_number]
        r2 == updateStatus(r1, current_status)
        r3 == IF Truthy(body.product_name) THEN [r2 EXCEPT !.product_name = body.product_name] ELSE r2
        r4 == IF Truthy(linkUrl) /\ Truthy(current_status)
              THEN IF current_status = "upload_photo" THEN [r3 EXCEPT !.url_upload = linkUrl]
                   ELSE IF current_status = "check_delivery" THEN [r3 EXCEPT !.url_delivery = linkUrl]
                   ELSE IF current_status = "check_revision" THEN [r3 EXCEPT !.url_revision = linkUrl]
                   ELSE r3
              ELSE r3
    IN  [l1 EXCEPT ![order_number] = r4]

\* POST: the condition of "TRIGGER SHOPIFY FLOW WHEN ORDER COMPLETE"
triggersTag(current_status, mergedStatus) == current_status = "order_complete"

\* bookkeeping: a POST answered 200 marks its own merge as returned
Returned(merge, p) == IF merge.slot = p THEN [merge EXCEPT !.returned = TRUE] ELSE merge

\* bookkeeping: a merge into the record of key ends "no write in between" for
\* the suspended GETs and marks the suspended POSTs of that record
Interrupted(c, key) ==
    [c EXCEPT !.follows = FALSE,
              !.overwritten = c.overwritten \/ (c.pc \notin {"idle", "get_fetch"} /\ c.key = key)]

\* POST up to its first await (or to its response, when nothing is awaited)
PostStart(p, body) ==
    /\ inflight[p].pc = "idle"
    /\ nPosts < MaxPosts
    /\ nPosts' = nPosts + 1
    /\ UNCHANGED <<shopifyTags, creds, gs, autoVars, kvVars>>
    /\ LET n == postOrderNumber(body.order_number)
       IN  IF n.threw
           THEN /\ Send(CrashResp("POST"))
                /\ UNCHANGED <<orderLinks, inflight, rt>>
           ELSE IF ~TruthyStr(n.value)
           THEN /\ Send(ErrorResp("POST", 400, "Missing required fields"))
                /\ UNCHANGED <<orderLinks, inflight, rt>>
           ELSE LET order_number == n.value
                    links == mergeOrder(orderLinks, order_number, body)
                    c == [Idle EXCEPT !.key = order_number,
                                      !.reqStatus = body.current_status,
                                      !.reqProduct = body.product_name,
                                      !.mergedStatus = links[order_number].current_status,
                                      !.existed = order_number \in DOMAIN orderLinks]
                    merge == IF body.current_status = "check_delivery"
                             THEN [raw |-> body.order_number, slot |-> p, returned |-> FALSE]
                             ELSE NoMerge
                    tag == triggersTag(body.current_status, links[order_number].current_status)
                IN  /\ orderLinks' = links
                    /\ IF creds
                       THEN \* suspended in fetch: addShopifyOrderTag's or the response's
                            /\ inflight' = [q \in Slots |->
                                   IF q = p
                                   THEN [c EXCEPT !.pc = IF tag THEN "tag_fetch" ELSE "post_fetch"]
                                   ELSE Interrupted(inflight[q], order_number)]
                            /\ rt' = merge
                            /\ UNCHANGED resp
                       ELSE \* no credentials: nothing is awaited on the network
                            /\ Send(postResponse(
                                   [c EXCEPT !.tagSuccess = IF tag THEN "false" ELSE "none"],
                                   links, nullOrder))
                            /\ rt' = Returned(merge, p)
                            /\ inflight' = [q \in Slots |-> Interrupted(inflight[q], order_number)]

\* addShopifyOrderTag: fetchShopifyOrder has answered
TagFetch(p, net, fin, ful) ==
    /\ inflight[p].pc = "tag_fetch"
    /\ LET c == inflight[p]
           order == fetchShopifyOrder(c.key, creds, shopifyTags, net, fin, ful)
           existingTags == existingTagsOf(order)
       IN  inflight' = [inflight EXCEPT ![p] =
               IF ~order.found
               THEN [c EXCEPT !.pc = "post_fetch", !.tagSuccess = "false"]
               ELSE IF includesTag(existingTags, MarkerTag)
               THEN [c EXCEPT !.pc = "post_fetch", !.tagSuccess = "true"]
               ELSE [c EXCEPT !.pc = "tag_put",
                              !.newTags = joinTags(Append(existingTags, MarkerTag))]]
    /\ UNCHANGED <<orderLinks, shopifyTags, creds, resp, nPosts, rt, gs, autoVars, kvVars>>

\* addShopifyOrderTag: the PUT of the new tag string has answered
TagPut(p, net) ==
    /\ inflight[p].pc = "tag_put"
    /\ LET c == inflight[p]
       IN  IF net = "ok"
           THEN /\ shopifyTags' = [shopifyTags EXCEPT
                                      ![replaceHash(c.key)] = platformTags(c.newTags)]
                /\ inflight' = [inflight EXCEPT ![p] =
                       [c EXCEPT !.pc = "post_fetch", !.tagSuccess = "true", !.newTags = <<>>]]
           ELSE /\ inflight' = [inflight EXCEPT ![p] =
                       [c EXCEPT !.pc = "post_fetch", !.tagSuccess = "false", !.newTags = <<>>]]
                /\ UNCHANGED shopifyTags
    /\ UNCHANGED <<orderLinks, creds, resp, nPosts, rt, gs, autoVars, kvVars>>

\* POST "Build response": fetchShopifyOrder has answered
PostFetch(p, net, fin, ful) ==
    /\ inflight[p].pc = "post_fetch"
    /\ LET c == inflight[p]
           shopifyOrder == fetchShopifyOrder(c.key, creds, shopifyTags, net, fin, ful)
       IN  Send(postResponse(c, orderLinks, shopifyOrder))
    /\ inflight' = [inflight EXCEPT ![p] = Idle]
    /\ rt' = Returned(rt, p)
    /\ UNCHANGED <<orderLinks, shopifyTags, creds, nPosts, gs, autoVars, kvVars>>

\* GET up to its await (or to its response)
GetStart(p, query) ==
    /\ inflight[p].pc = "idle"
    /\ UNCHANGED <<orderLinks, shopifyTags, creds, nPosts, rt, gs, autoVars, kvVars>>
    /\ LET n == getOrderNumber(query)
           orderNumber == n.value
           follows == rt.returned /\ rt.raw = query
           missing == query = NoOrder
       IN  IF n.threw
           THEN /\ Send([CrashResp("GET") EXCEPT !.paramMissing = missing])
                /\ UNCHANGED inflight
           ELSE IF ~TruthyStr(orderNumber)
           THEN /\ Send([ErrorResp("GET", 400, "Order number is required") EXCEPT
                            !.paramMissing = missing])
                /\ UNCHANGED inflight
           ELSE IF ~hasLinkData(orderLinks, orderNumber)
           THEN /\ Send([ErrorResp("GET", 404, "Order not found") EXCEPT
                            !.key = orderNumber,
                            !.order_number = orderNumber, !.follows = follows,
                            !.paramMissing = missing])
                /\ UNCHANGED inflight
           ELSE LET c == [Idle EXCEPT !.key = orderNumber, !.follows = follows,
                                      !.paramMissing = missing]
                IN  IF creds
                    THEN /\ inflight' = [inflight EXCEPT ![p] = [c EXCEPT !.pc = "get_fetch"]]
                         /\ UNCHANGED resp
                    ELSE \* no credentials: fetchShopifyOrder answers without the network
                         /\ Send(getResponse(c, orderLinks,
                                  fetchShopifyOrder(orderNumber, creds, shopifyTags,
                                                    "ok", "paid", "fulfilled")))
                         /\ UNCHANGED inflight

\* GET: fetchShopifyOrder has answered
GetFetch(p, net, fin, ful) ==
    /\ inflight[p].pc = "get_fetch"
    /\ LET c == inflight[p]
           shopifyOrder == fetchShopifyOrder(c.key, creds, shopifyTags, net, fin, ful)
       IN  Send(getResponse(c, orderLinks, shopifyOrder))
    /\ inflight' = [inflight EXCEPT ![p] = Idle]
    /\ UNCHANGED <<orderLinks, shopifyTags, creds, nPosts, rt, gs, autoVars, kvVars>>

\* OPTIONS: res.status(200).end()
Options ==
    /\ Send([BlankResp EXCEPT !.method = "OPTIONS", !.status = 200, !.kind = "empty"])
    /\ UNCHANGED <<orderLinks, shopifyTags, creds, inflight, nPosts, rt, gs, autoVars, kvVars>>

\* any other method: 405
MethodNotAllowed ==
    /\ Send(ErrorResp("OTHER", 405, "Method not allowed"))
    /\ UNCHANGED <<orderLinks, shopifyTags, creds, inflight, nPosts, rt, gs, autoVars, kvVars>>

(***************************************************************************)
(* src/api/order-status.ts: the shopify-orders handler                     *)
(***************************************************************************)
\* req.method of a request to the shopify-orders handler
ShopifyOrdersMethods == {"OPTIONS", "GET", "POST"}

\* data.orders.map(order => ({order_number: order.name, ...})): the names of
\* the platform's orders, one entry each
RECURSIVE orderSummaries(_)
orderSummaries(names) ==
    IF names = {} THEN <<>>
    ELSE LET n == CHOOSE x \in names : TRUE
         IN  <<(<<"#">> \o n)>> \o orderSummaries(names \ {n})

\* the response of the shopify-orders handler; net: how its fetch ends
shopifyOrdersResponse(method, hasCreds, tags, net) ==
    LET r == [BlankResp EXCEPT !.handler = "shopify-orders", !.method = method]
    IN  IF method = "OPTIONS"
        THEN [r EXCEPT !.status = 200, !.kind = "empty"]
        ELSE IF method # "GET"
        THEN [r EXCEPT !.status = 405, !.kind = "error", !.error = "Method not allowed"]
        ELSE IF ~hasCreds
        THEN [r EXCEPT !.status = 500, !.kind = "error", !.upstream = "unavailable",
                       !.error = "Missing Shopify credentials", !.hasMessage = TRUE]
        ELSE IF net # "ok"
        THEN [r EXCEPT !.status = 500, !.kind = "error", !.upstream = "unavailable",
                       !.error = "Failed to fetch orders", !.hasMessage = TRUE]
        ELSE LET summaries == orderSummaries(DOMAIN tags)
             IN  [r EXCEPT !.status = 200, !.kind = "orders", !.success = TRUE,
                           !.upstream = "ok",
                           !.count = Len(summaries), !.orders = summaries]

\* A request to the shopify-orders handler. The handler reads and writes
\* nothing but the platform's order list, so its await is not a separate step.
ShopifyOrders(method, net) ==
    /\ Send(shopifyOrdersResponse(method, creds, shopifyTags, net))
    /\ UNCHANGED <<orderLinks, shopifyTags, creds, inflight, nPosts, rt, gs, autoVars, kvVars>>

(***************************************************************************)
(* src/pages/index.tsx: the auto-create handler (validating POST)          *)
(*                                                                         *)
(* The handler has no await: every request is one step. Its store is a     *)
(* plain object, so orders["__proto__"] is Object.prototype: a request for  *)
(* that key reads and writes the prototype's properties, and a request     *)
(* body without a current_status of its own then inherits the one written. *)
(***************************************************************************)
\* values of req.query.order and of req.body.order_number
AcOrderNumbers == {NoOrder, <<>>, <<"1">>, <<"#", "1">>, ProtoKey}

\* values of req.body.current_status: those of StatusValues and ''
AcStatusValues == StatusValues \cup {""}

\* Object.prototype before any request: none of Order's properties
CleanPrototype == [current_status |-> undefined, steps |-> <<>>]

AcBlankResp ==
    [method |-> "none", status |-> 0, error |-> undefined, hasMessage |-> FALSE,
     success |-> FALSE,
     order_number |-> NoOrder, order_id |-> NoOrder, current_status |-> undefined,
     steps |-> <<>>,
     \* ----
     key |-> NoOrder,          \* the store key the handler used
     hadRecord |-> FALSE,      \* a record was stored under that key before the request
     reqStatus |-> undefined]  \* the current_status property of the request body itself

AcErrorResp(method, status, error) ==
    [AcBlankResp EXCEPT !.method = method, !.status = status, !.error = error,
                        !.hasMessage = TRUE]

\* a validation that accepts every status
validStatus_any(current_status) == TRUE

\* validStatuses.includes(current_status)
validStatus(current_status) == current_status \in {allSteps[k] : k \in 1..Len(allSteps)}

\* the truthiness of orders[key]
hasOrder(store, key) == key \in DOMAIN store \/ key \in ObjectPrototypeKeys

\* orders[key] when it is truthy: the record stored under key, or else
\* Object.prototype with the properties the handler has set on it
orderOf(store, proto, key) ==
    IF key \in DOMAIN store THEN store[key]
    ELSE [order_number |-> NoOrder, order_id |-> NoOrder,
          current_status |-> proto.current_status, steps |-> proto.steps]

\* the order object after `order.current_status = ...; order.steps = ...`
\* written back where the object lives: in the store or on the prototype
acWrite(store, proto, key, order) ==
    IF key \in DOMAIN store
    THEN [store |-> [store EXCEPT ![key] = order], proto |-> proto]
    ELSE [store |-> store,
          proto |-> [current_status |-> order.current_status, steps |-> order.steps]]

newOrder(key, current_status) ==
    [order_number |-> key, order_id |-> replaceHash(key),
     current_status |-> current_status, steps |-> <<>>]

AcWithOrder(r, order) ==
    [r EXCEPT !.order_number = order.order_number, !.order_id = order.order_id,
              !.current_status = order.current_status, !.steps = order.steps]

\* GET - Retrieve order status
AcGet(query) ==
    /\ UNCHANGED <<orderLinks, shopifyTags, creds, inflight, resp, nPosts, rt, gs, kvVars>>
    /\ IF ~TruthyStr(query)
       THEN /\ acResp' = AcErrorResp("GET", 400, "Order number is required")
            /\ UNCHANGED <<orders, objectPrototype>>
       ELSE LET had == query \in DOMAIN orders
                store == IF hasOrder(orders, query) THEN orders
                         ELSE orders @@ (query :> newOrder(query, "upload_photo"))
                found == orderOf(store, objectPrototype, query)
                order == [found EXCEPT !.steps = generateSteps_autoCreate(found.current_status)]
                w == acWrite(store, objectPrototype, query, order)
            IN  /\ orders' = w.store
                /\ objectPrototype' = w.proto
                /\ acResp' = [AcWithOrder(AcBlankResp, order) EXCEPT
                                 !.method = "GET", !.status = 200,
                                 !.key = query, !.hadRecord = had]

\* POST - Update order status
AcPost(body) ==
    /\ UNCHANGED <<orderLinks, shopifyTags, creds, inflight, resp, nPosts, rt, gs, kvVars>>
    /\ LET order_number == body.order_number
           \* const { order_number, current_status } = req.body
           current_status == IF body.current_status = undefined
                             THEN objectPrototype.current_status
                             ELSE body.current_status
       IN  IF ~TruthyStr(order_number) \/ ~Truthy(current_status)
           THEN /\ acResp' = [AcErrorResp("POST", 400, "Missing required fields") EXCEPT
                                 !.reqStatus = body.current_status]
                /\ UNCHANGED <<orders, objectPrototype>>
           ELSE IF ~validStatus(current_status)
           THEN /\ acResp' = [AcErrorResp("POST", 400, "Invalid status") EXCEPT
                                 !.reqStatus = body.current_status]
                /\ UNCHANGED <<orders, objectPrototype>>
           ELSE LET had == order_number \in DOMAIN orders
                    store == IF hasOrder(orders, order_number) THEN orders
                             ELSE orders @@ (order_number :> newOrder(order_number, current_status))
                    found == orderOf(store, objectPrototype, order_number)
                    order == [found EXCEPT
                                 !.current_status = current_status,
                                 !.steps = generateSteps_autoCreate(current_status)]
                    w == acWrite(store, objectPrototype, order_number, order)
                IN  /\ orders' = w.store
                    /\ objectPrototype' = w.proto
                    /\ acResp' = [AcWithOrder(AcBlankResp, order) EXCEPT
                                     !.method = "POST", !.status = 200,
                                     !.success = TRUE, !.hasMessage = TRUE,
                                     !.key = order_number, !.hadRecord = had,
                                     !.reqStatus = body.current_status]

AcOptions ==
    /\ acResp' = [AcBlankResp EXCEPT !.method = "OPTIONS", !.status = 200]
    /\ UNCHANGED <<orderLinks, shopifyTags, creds, inflight, resp, nPosts, rt, gs, kvVars>>
    /\ UNCHANGED <<orders, objectPrototype>>

AcMethodNotAllowed ==
    /\ acResp' = AcErrorResp("OTHER", 405, "Method not allowed")
    /\ UNCHANGED <<orderLinks, shopifyTags, creds, inflight, resp, nPosts, rt, gs, kvVars>>
    /\ UNCHANGED <<orders, objectPrototype>>

\* the handler before its first request
AutoIdle == orders = <<>> /\ objectPrototype = CleanPrototype /\ acResp = AcBlankResp

(***************************************************************************)
(* src/unnamed/part_002 and part_000: the KV-backed handlers               *)
(*                                                                         *)
(* part_002 keeps project_id and revision_number, part_000 keeps url_link; *)
(* part_000 also catches the errors of kv.get and kv.set. The handlers     *)
(* are split at their awaits: fetchShopifyOrder, kv.get, kv.set.           *)
(***************************************************************************)
KvHandlers == {"projectId", "urlLink"}

\* values of req.query.order and req.body.order_number: missing, empty, an
\* order the platform holds (without and with '#'), one it does not hold
KvOrderNumbers == {NoOrder, <<>>, <<"1">>, <<"#", "1">>, <<"2">>}

\* a revision_number: <<>> when undefined, <<n>> for the number n
NoRevision == <<>>

\* OrderLinkData with no property set: what `kv.get(...) || {}` gives for a
\* key that was never written
EmptyLinkData ==
    [current_status |-> undefined, project_id |-> undefined, revision_number |-> NoRevision,
     url_link |-> undefined, product_name |-> undefined]

KvBody(order_number, current_status, project_id, revision_number, url_link, product_name) ==
    [order_number |-> order_number, current_status |-> current_status,
     project_id |-> project_id, revision_number |-> revision_number,
     url_link |-> url_link, product_name |-> product_name]

NoKvBody == KvBody(NoOrder, undefined, undefined, NoRevision, undefined, undefined)

\* request bodies: a full update, a status alone and a body with the order
\* number alone for every order number
KvPostBodies ==
    {KvBody(n, "check_revision", "p1", <<2>>, "u", "X") : n \in KvOrderNumbers}
    \cup {KvBody(n, s, undefined, NoRevision, undefined, undefined) :
             n \in KvOrderNumbers, s \in {undefined, "order_complete", "shipped"}}

\* how a KV call ends
KvOutcomes == {"ok", "throw"}

KvBlankResp ==
    [method |-> "none", status |-> 0, error |-> undefined, hasMessage |-> FALSE,
     success |-> FALSE,
     order_number |-> NoOrder, order_id |-> NoOrder, current_status |-> undefined,
     project_id |-> undefined, url_link |-> undefined, product_name |-> undefined,
     financial_status |-> undefined, fulfillment_status |-> undefined,
     steps |-> <<>>,
     count |-> 0, orders |-> <<>>,   \* the listing of ?action=get_all_orders
     \* ----
     listing |-> FALSE,      \* the request was GET ?action=get_all_orders
     lostUpdate |-> FALSE,   \* POST: kv.set replaced a record that was written
                             \* after this POST's kv.get
     key |-> NoOrder,        \* the order number of the request
     fetched |-> "none",     \* what fetchShopifyOrder returned: "order", "null";
                             \* "none" if it was not called
     linkData |-> EmptyLinkData] \* the tracking record the handler read (and merged)

KvErrorResp(method, status, error) ==
    [KvBlankResp EXCEPT !.method = method, !.status = status, !.error = error,
                        !.hasMessage = TRUE]

\* the local variables of a handler suspended at an await
KvIdleSlot ==
    [pc |-> "idle", method |-> "none", key |-> NoOrder, body |-> NoKvBody,
     shopifyOrder |-> nullOrder, linkData |-> EmptyLinkData,
     read |-> EmptyLinkData,   \* POST: what kv.get returned, before the merge
     \* ?action=get_all_orders: the orders fetched, the record read for each,
     \* the positions whose kv.get has not answered
     listed |-> <<>>, reads |-> <<>>, pending |-> {}]

\* the default of the revisionNumber parameter
revisionOf(revision_number) == IF revision_number = NoRevision THEN 1 ELSE revision_number[1]

\* the Order object that GET and POST build from the external order and linkData
kvOrderView(handler, shopifyOrder, linkData) ==
    LET current_status == OrElse(linkData.current_status, "upload_photo")
        rev == revisionOf(linkData.revision_number)
    IN  [order_number |-> shopifyOrder.name,
         order_id |-> shopifyOrder.id,
         current_status |-> current_status,
         project_id |-> IF handler = "projectId" THEN linkData.project_id ELSE undefined,
         url_link |-> IF handler = "projectId"
                      THEN IF Truthy(linkData.project_id)
                           THEN generateURLForStatus(current_status, linkData.project_id, rev)
                           ELSE null
                      ELSE linkData.url_link,
         product_name |-> OrElse(linkData.product_name, shopifyOrder.line_item_name),
         financial_status |-> shopifyOrder.financial_status,
         fulfillment_status |-> shopifyOrder.fulfillment_status,
         steps |-> IF handler = "projectId"
                   THEN generateSteps_kvProjectId(current_status, linkData.project_id, rev)
                   ELSE generateSteps_urlLink(current_status, linkData.url_link)]

kvOrderResp(c, handler, linkData) ==
    LET order == kvOrderView(handler, c.shopifyOrder, linkData)
    IN  [KvBlankResp EXCEPT
            !.method = c.method, !.status = 200,
            !.success = (c.method = "POST"), !.hasMessage = (c.method = "POST"),
            !.order_number = order.order_number, !.order_id = order.order_id,
            !.current_status = order.current_status, !.project_id = order.project_id,
            !.url_link = order.url_link, !.product_name = order.product_name,
            !.financial_status = order.financial_status,
            !.fulfillment_status = order.fulfillment_status,
            !.steps = order.steps,
            !.key = c.key, !.fetched = "order", !.linkData = linkData]

\* POST: if (current_status) linkData.current_status = current_status; ...
kvMerge(handler, linkData, body) ==
    LET l1 == IF Truthy(body.current_status)
              THEN [linkData EXCEPT !.current_status = body.current_status] ELSE linkData
        l2 == IF handler = "projectId" /\ Truthy(body.project_id)
              THEN [l1 EXCEPT !.project_id = body.project_id] ELSE l1
        l3 == IF handler = "urlLink" /\ Truthy(body.url_link)
              THEN [l2 EXCEPT !.url_link = body.url_link] ELSE l2
        l4 == IF Truthy(body.product_name)
              THEN [l3 EXCEPT !.product_name = body.product_name] ELSE l3
    IN  IF handler = "projectId" /\ body.revision_number # NoRevision
        THEN [l4 EXCEPT !.revision_number = body.revision_number] ELSE l4

\* the response when fetchShopifyOrder has returned null
kvNotFound(method, key) ==
    [KvErrorResp(method, 404, "Order not found") EXCEPT !.key = key, !.fetched = "null"]

\* GET ?order=... or POST, up to the await of fetchShopifyOrder
KvStart(p, method, body) ==
    /\ kvInflight[p].pc = "idle"
    /\ method = "POST" => nKvPosts < MaxPosts
    /\ nKvPosts' = IF method = "POST" THEN nKvPosts + 1 ELSE nKvPosts
    /\ UNCHANGED <<orderLinks, shopifyTags, creds, inflight, resp, nPosts, rt, gs, autoVars>>
    /\ UNCHANGED <<kvHandler, kvStore>>
    /\ IF ~TruthyStr(body.order_number)
       THEN /\ kvResp' = KvErrorResp(method, 400,
                             IF method = "GET" THEN "Order number is required"
                             ELSE "Missing required fields")
            /\ UNCHANGED kvInflight
       ELSE IF ~creds
       THEN \* no credentials: fetchShopifyOrder returns null without the network
            /\ kvResp' = kvNotFound(method, body.order_number)
            /\ UNCHANGED kvInflight
       ELSE /\ kvInflight' = [kvInflight EXCEPT ![p] =
                   [KvIdleSlot EXCEPT !.pc = "fetch", !.method = method,
                                      !.key = body.order_number, !.body = body]]
            /\ UNCHANGED kvResp

\* fetchShopifyOrder has answered
KvFetch(p, net, fin, ful) ==
    /\ kvInflight[p].pc = "fetch"
    /\ UNCHANGED <<orderLinks, shopifyTags, creds, inflight, resp, nPosts, rt, gs, autoVars>>
    /\ UNCHANGED <<kvHandler, kvStore, nKvPosts>>
    /\ LET c == kvInflight[p]
           shopifyOrder == fetchShopifyOrder(c.key, creds, shopifyTags, net, fin, ful)
       IN  IF ~shopifyOrder.found
           THEN /\ kvResp' = kvNotFound(c.method, c.key)
                /\ kvInflight' = [kvInflight EXCEPT ![p] = KvIdleSlot]
           ELSE /\ kvInflight' = [kvInflight EXCEPT ![p] =
                       [c EXCEPT !.pc = "kv_get", !.shopifyOrder = shopifyOrder]]
                /\ UNCHANGED kvResp

\* kv.get has answered: GET responds, POST merges and calls kv.set
KvGet(p, outcome) ==
    /\ kvInflight[p].pc = "kv_get"
    /\ UNCHANGED <<orderLinks, shopifyTags, creds, inflight, resp, nPosts, rt, gs, autoVars>>
    /\ UNCHANGED <<kvHandler, kvStore, nKvPosts>>
    /\ LET c == kvInflight[p]
           linkData == IF outcome = "ok" /\ c.key \in DOMAIN kvStore
                       THEN kvStore[c.key] ELSE EmptyLinkData
       IN  IF outcome = "throw" /\ kvHandler = "projectId"
           THEN /\ kvResp' = [KvErrorResp(c.method, 500, "Internal server error") EXCEPT
                                 !.key = c.key, !.fetched = "order"]
                /\ kvInflight' = [kvInflight EXCEPT ![p] = KvIdleSlot]
           ELSE IF c.method = "GET"
           THEN /\ kvResp' = kvOrderResp(c, kvHandler, linkData)
                /\ kvInflight' = [kvInflight EXCEPT ![p] = KvIdleSlot]
           ELSE /\ kvInflight' = [kvInflight EXCEPT ![p] =
                       [c EXCEPT !.pc = "kv_set", !.body = NoKvBody, !.read = linkData,
                                 !.linkData = kvMerge(kvHandler, linkData, c.body)]]
                /\ UNCHANGED kvResp

\* a write that keeps the stored product name when the new record has none
kvSet_keepStored(store, key, value) ==
    [k \in DOMAIN store \cup {key} |->
        IF k # key THEN store[k]
        ELSE IF key \in DOMAIN store
             THEN [value EXCEPT !.product_name = OrElse(@, store[key].product_name)]
             ELSE value]

\* kv.set(key, value): the store with value under key, whatever was there
kvSet(store, key, value) ==
    [k \in DOMAIN store \cup {key} |-> IF k = key THEN value ELSE store[k]]

\* POST: kv.set has answered
KvSet(p, outcome) ==
    /\ kvInflight[p].pc = "kv_set"
    /\ UNCHANGED <<orderLinks, shopifyTags, creds, inflight, resp, nPosts, rt, gs, autoVars>>
    /\ UNCHANGED <<kvHandler, nKvPosts>>
    /\ LET c == kvInflight[p]
           stored == IF c.key \in DOMAIN kvStore THEN kvStore[c.key] ELSE EmptyLinkData
       IN  /\ kvInflight' = [kvInflight EXCEPT ![p] = KvIdleSlot]
           /\ kvStore' = IF outcome = "ok"
                         THEN kvSet(kvStore, c.key, c.linkData)
                         ELSE kvStore
           /\ kvResp' = IF outcome = "throw" /\ kvHandler = "projectId"
                        THEN [KvErrorResp("POST", 500, "Internal server error") EXCEPT
                                 !.key = c.key, !.fetched = "order"]
                        ELSE [kvOrderResp(c, kvHandler, c.linkData) EXCEPT
                                 !.lostUpdate = (outcome = "ok" /\ stored # c.read)]

\* fetchAllShopifyOrders(): the platform's orders, [] when the credentials
\* are absent, the response is not OK or the fetch throws
fetchAllShopifyOrders(hasCreds, tags, net, fin, ful) ==
    IF ~hasCreds \/ net # "ok" THEN <<>>
    ELSE LET names == orderSummaries(DOMAIN tags)
         IN  [i \in 1..Len(names) |->
                 [found |-> TRUE, name |-> names[i], id |-> Tail(names[i]),
                  tags |-> joinTags(tags[Tail(names[i])]),
                  financial_status |-> fin, fulfillment_status |-> ful,
                  line_item_name |-> "Virtual Staging"]]

\* res.status(200).json({success: true, count: ordersWithLinks.length, orders})
kvListResp(handler, listed, reads) ==
    LET ordersWithLinks == [i \in 1..Len(listed) |-> kvOrderView(handler, listed[i], reads[i])]
    IN  [KvBlankResp EXCEPT !.method = "GET", !.status = 200, !.success = TRUE,
                            !.listing = TRUE,
                            !.count = Len(ordersWithLinks), !.orders = ordersWithLinks]

\* GET ?action=get_all_orders, up to the await inside fetchAllShopifyOrders
KvListStart(p) ==
    /\ kvInflight[p].pc = "idle"
    /\ UNCHANGED <<orderLinks, shopifyTags, creds, inflight, resp, nPosts, rt, gs, autoVars>>
    /\ UNCHANGED <<kvHandler, kvStore, nKvPosts>>
    /\ IF ~creds
       THEN /\ kvResp' = kvListResp(kvHandler, <<>>, <<>>)
            /\ UNCHANGED kvInflight
       ELSE /\ kvInflight' = [kvInflight EXCEPT ![p] =
                   [KvIdleSlot EXCEPT !.pc = "list_fetch", !.method = "GET"]]
            /\ UNCHANGED kvResp

\* fetchAllShopifyOrders has answered: one kv.get per order is started
KvListFetch(p, net, fin, ful) ==
    /\ kvInflight[p].pc = "list_fetch"
    /\ UNCHANGED <<orderLinks, shopifyTags, creds, inflight, resp, nPosts, rt, gs, autoVars>>
    /\ UNCHANGED <<kvHandler, kvStore, nKvPosts>>
    /\ LET shopifyOrders == fetchAllShopifyOrders(creds, shopifyTags, net, fin, ful)
       IN  IF shopifyOrders = <<>>
           THEN /\ kvResp' = kvListResp(kvHandler, <<>>, <<>>)
                /\ kvInflight' = [kvInflight EXCEPT ![p] = KvIdleSlot]
           ELSE /\ kvInflight' = [kvInflight EXCEPT ![p] =
                       [@ EXCEPT !.pc = "list_get", !.listed = shopifyOrders,
                                 !.reads = [i \in 1..Len(shopifyOrders) |-> EmptyLinkData],
                                 !.pending = 1..Len(shopifyOrders)]]
                /\ UNCHANGED kvResp

\* the kv.get for the i-th listed order has answered
KvListGet(p, i, outcome) ==
    /\ kvInflight[p].pc = "list_get"
    /\ i \in kvInflight[p].pending
    /\ UNCHANGED <<orderLinks, shopifyTags, creds, inflight, resp, nPosts, rt, gs, autoVars>>
    /\ UNCHANGED <<kvHandler, kvStore, nKvPosts>>
    /\ LET c == kvInflight[p]
           orderNum == c.listed[i].name
           linkData == IF outcome = "ok" /\ orderNum \in DOMAIN kvStore
                       THEN kvStore[orderNum] ELSE EmptyLinkData
           reads == [c.reads EXCEPT ![i] = linkData]
       IN  IF outcome = "throw" /\ kvHandler = "projectId"
           THEN /\ kvResp' = [KvErrorResp("GET", 500, "Internal server error") EXCEPT
                                 !.listing = TRUE]
                /\ kvInflight' = [kvInflight EXCEPT ![p] = KvIdleSlot]
           ELSE IF c.pending = {i}
           THEN /\ kvResp' = kvListResp(kvHandler, c.listed, reads)
                /\ kvInflight' = [kvInflight EXCEPT ![p] = KvIdleSlot]
           ELSE /\ kvInflight' = [kvInflight EXCEPT ![p] =
                       [c EXCEPT !.reads = reads, !.pending = c.pending \ {i}]]
                /\ UNCHANGED kvResp

KvOptions ==
    /\ kvResp' = [KvBlankResp EXCEPT !.method = "OPTIONS", !.status = 200]
    /\ UNCHANGED <<orderLinks, shopifyTags, creds, inflight, resp, nPosts, rt, gs, autoVars>>
    /\ UNCHANGED <<kvHandler, kvStore, kvInflight, nKvPosts>>

KvMethodNotAllowed ==
    /\ kvResp' = KvErrorResp("OTHER", 405, "Method not allowed")
    /\ UNCHANGED <<orderLinks, shopifyTags, creds, inflight, resp, nPosts, rt, gs, autoVars>>
    /\ UNCHANGED <<kvHandler, kvStore, kvInflight, nKvPosts>>

\* the KV handlers before their first request (Spec, SpecSteps, SpecAuto)
KvIdle ==
    /\ kvHandler = "projectId"
    /\ kvStore = <<>>
    /\ kvInflight = [p \in Slots |-> KvIdleSlot]
    /\ kvResp = KvBlankResp
    /\ nKvPosts = 0

(***************************************************************************)
(* Calls of the step derivation functions                                  *)
(***************************************************************************)
\* values of currentStatus: those of a request, and the empty string
StepStatusInputs == StatusValues \cup {""}

\* URLs as the store of src/api/order-status.ts holds them: '' until set
StoredUrls == {"", "u"}

ProjectIds == {undefined, "p1"}
RevisionNumbers == {1, 2}
UrlLinks == {undefined, "u"}

NoCall ==
    [variant |-> "none", currentStatus |-> undefined,
     urls |-> [upload |-> "", delivery |-> "", revision |-> ""],
     projectId |-> undefined, revisionNumber |-> 1, urlLink |-> undefined,
     out |-> <<>>]

\* src/api/order-status.ts
CallGenerateSteps(currentStatus, urls) ==
    /\ gs' = [NoCall EXCEPT !.variant = "api", !.currentStatus = currentStatus,
                            !.urls = urls, !.out = generateSteps(currentStatus, urls)]
    /\ UNCHANGED <<orderLinks, shopifyTags, creds, inflight, resp, nPosts, rt, autoVars, kvVars>>

\* auto-create handler
CallGenerateStepsAutoCreate(currentStatus) ==
    /\ gs' = [NoCall EXCEPT !.variant = "autoCreate", !.currentStatus = currentStatus,
                            !.out = generateSteps_autoCreate(currentStatus)]
    /\ UNCHANGED <<orderLinks, shopifyTags, creds, inflight, resp, nPosts, rt, autoVars, kvVars>>

\* project_id handler (in memory)
CallGenerateStepsProjectId(currentStatus, projectId, revisionNumber) ==
    /\ gs' = [NoCall EXCEPT !.variant = "projectId", !.currentStatus = currentStatus,
                            !.projectId = projectId, !.revisionNumber = revisionNumber,
                            !.out = generateSteps_projectId(currentStatus, projectId, revisionNumber)]
    /\ UNCHANGED <<orderLinks, shopifyTags, creds, inflight, resp, nPosts, rt, autoVars, kvVars>>

\* KV project_id handler
CallGenerateStepsKvProjectId(currentStatus, projectId, revisionNumber) ==
    /\ gs' = [NoCall EXCEPT !.variant = "kvProjectId", !.currentStatus = currentStatus,
                            !.projectId = projectId, !.revisionNumber = revisionNumber,
                            !.out = generateSteps_kvProjectId(currentStatus, projectId, revisionNumber)]
    /\ UNCHANGED <<orderLinks, shopifyTags, creds, inflight, resp, nPosts, rt, autoVars, kvVars>>

\* url_link handlers
CallGenerateStepsUrlLink(currentStatus, urlLink) ==
    /\ gs' = [NoCall EXCEPT !.variant = "urlLink", !.currentStatus = currentStatus,
                            !.urlLink = urlLink,
                            !.out = generateSteps_urlLink(currentStatus, urlLink)]
    /\ UNCHANGED <<orderLinks, shopifyTags, creds, inflight, resp, nPosts, rt, autoVars, kvVars>>

InitSteps ==
    /\ orderLinks = <<>>
    /\ shopifyTags \in [ShopifyNames -> InitialTags]
    /\ creds = FALSE
    /\ inflight = [p \in Slots |-> Idle]
    /\ resp = BlankResp
    /\ nPosts = 0
    /\ rt = NoMerge
    /\ gs = NoCall
    /\ AutoIdle
    /\ KvIdle

NextSteps ==
    \/ \E s \in StepStatusInputs, u, d, r \in StoredUrls :
          CallGenerateSteps(s, [upload |-> u, delivery |-> d, revision |-> r])
    \/ \E s \in StepStatusInputs : CallGenerateStepsAutoCreate(s)
    \/ \E s \in StepStatusInputs, pid \in ProjectIds, rev \in RevisionNumbers :
          \/ CallGenerateStepsProjectId(s, pid, rev)
          \/ CallGenerateStepsKvProjectId(s, pid, rev)
    \/ \E s \in StepStatusInputs, u \in UrlLinks : CallGenerateStepsUrlLink(s, u)

\* the step derivation functions applied to every input
SpecSteps == InitSteps /\ [][NextSteps]_vars

InitKv ==
    /\ orderLinks = <<>>
    /\ shopifyTags \in [ShopifyNames -> InitialTags]
    /\ creds \in BOOLEAN
    /\ inflight = [p \in Slots |-> Idle]
    /\ resp = BlankResp
    /\ nPosts = 0
    /\ rt = NoMerge
    /\ gs = NoCall
    /\ orders = <<>> /\ objectPrototype = CleanPrototype /\ acResp = AcBlankResp
    /\ kvHandler \in KvHandlers
    /\ kvStore = <<>>
    /\ kvInflight = [p \in Slots |-> KvIdleSlot]
    /\ kvResp = KvBlankResp
    /\ nKvPosts = 0

NextKv ==
    \/ \E p \in Slots, query \in KvOrderNumbers :
          KvStart(p, "GET", [NoKvBody EXCEPT !.order_number = query])
    \/ \E p \in Slots, body \in KvPostBodies : KvStart(p, "POST", body)
    \/ \E p \in Slots, net \in NetOutcomes, fin \in FinancialStatuses,
            ful \in FulfillmentStatuses : KvFetch(p, net, fin, ful)
    \/ \E p \in Slots, outcome \in KvOutcomes :
          \/ KvGet(p, outcome)
          \/ KvSet(p, outcome)
    \/ \E p \in Slots : KvListStart(p)
    \/ \E p \in Slots, net \in NetOutcomes, fin \in FinancialStatuses,
            ful \in FulfillmentStatuses : KvListFetch(p, net, fin, ful)
    \/ \E p \in Slots, outcome \in KvOutcomes :
          \E i \in kvInflight[p].pending : KvListGet(p, i, outcome)
    \/ KvOptions
    \/ KvMethodNotAllowed

\* one of the KV-backed handlers
SpecKv == InitKv /\ [][NextKv]_vars

InitAuto ==
    /\ orderLinks = <<>>
    /\ shopifyTags \in [ShopifyNames -> InitialTags]
    /\ creds = FALSE
    /\ inflight = [p \in Slots |-> Idle]
    /\ resp = BlankResp
    /\ nPosts = 0
    /\ rt = NoMerge
    /\ gs = NoCall
    /\ AutoIdle
    /\ KvIdle

NextAuto ==
    \/ \E query \in AcOrderNumbers : AcGet(query)
    \/ \E order_number \in AcOrderNumbers, current_status \in AcStatusValues :
          AcPost([order_number |-> order_number, current_status |-> current_status])
    \/ AcOptions
    \/ AcMethodNotAllowed

\* the auto-create handler of src/pages/index.tsx
SpecAuto == InitAuto /\ [][NextAuto]_vars

Init ==
    /\ orderLinks = <<>>
    /\ shopifyTags \in [ShopifyNames -> InitialTags]
    /\ creds \in BOOLEAN
    /\ inflight = [p \in Slots |-> Idle]
    /\ resp = BlankResp
    /\ nPosts = 0
    /\ rt = NoMerge
    /\ gs = NoCall
    /\ AutoIdle
    /\ KvIdle

Next ==
    \/ \E p \in Slots, body \in PostBodies : PostStart(p, body)
    \/ \E p \in Slots, net \in NetOutcomes, fin \in FinancialStatuses, ful \in FulfillmentStatuses :
          \/ TagFetch(p, net, fin, ful)
          \/ PostFetch(p, net, fin, ful)
          \/ GetFetch(p, net, fin, ful)
    \/ \E p \in Slots, net \in NetOutcomes : TagPut(p, net)
    \/ \E p \in Slots, query \in GetOrderParams : GetStart(p, query)
    \/ Options
    \/ MethodNotAllowed

\* the order-status handler
Spec == Init /\ [][Next]_vars

NextApi ==
    \/ Next
    \/ \E method \in ShopifyOrdersMethods, net \in NetOutcomes : ShopifyOrders(method, net)

\* both handlers of src/api/order-status.ts, serving the same deployment
SpecApi == Init /\ [][NextApi]_vars

(***************************************************************************)
(* Properties of the step derivation (SpecSteps)                           *)
(***************************************************************************)
Stages == {allSteps[k] : k \in 1..Len(allSteps)}

\* 0-based position of a stage in the pipeline
StageIndex(stage) == (CHOOSE k \in 1..Len(allSteps) : allSteps[k] = stage) - 1

\* the statuses the pipeline order prescribes for current stage S
PipelineStatuses(steps, S) ==
    /\ Len(steps) = Len(allSteps)
    /\ \A k \in 1..Len(steps) :
          /\ steps[k].id = allSteps[k]
          /\ (k - 1 < StageIndex(S)) => steps[k].status = "completed"
          /\ (k - 1 = StageIndex(S)) => steps[k].status = "in_progress"
          /\ (k - 1 > StageIndex(S)) => steps[k].status = "pending"

\* C3: for every stage S, generateSteps(S, urls) of src/api/order-status.ts
\* and generateSteps(S) of the auto-create handler return the step S as
\* in_progress, every earlier step as completed, every later step as pending.
C3_PipelineStatuses ==
    (gs.variant \in {"api", "autoCreate"} /\ gs.currentStatus \in Stages)
        => PipelineStatuses(gs.out, gs.currentStatus)

C3_Witness ==
    /\ gs.variant = "api"
    /\ gs.currentStatus = "check_delivery"
    /\ gs.out[2].status = "completed"
    /\ gs.out[3].status = "in_progress"
    /\ gs.out[4].status = "pending"

\* C4: for every stage S, the generateSteps of the project-id and url_link
\* handlers return the step S as in_progress, every earlier step as
\* completed and every later step as pending, also for S = upload_photo.
C4_PipelineStatuses ==
    (gs.variant \in {"projectId", "kvProjectId", "urlLink"} /\ gs.currentStatus \in Stages)
        => PipelineStatuses(gs.out, gs.currentStatus)

(***************************************************************************)
(* Properties of the handler of src/api/order-status.ts (Spec)             *)
(***************************************************************************)
OrderResponse == resp.status = 200 /\ resp.method \in {"GET", "POST"}

StepOf(steps, id) == steps[CHOOSE k \in 1..Len(steps) : steps[k].id = id]

\* C1: a POST {order_number: N, current_status: 'check_delivery'} answered
\* 200, followed by GET ?order=N with no write in between, is answered 200
\* with current_status check_delivery and the check_delivery step in_progress,
\* for every N, with or without a leading '#'.
C1_WriteThenRead ==
    (resp.method = "GET" /\ resp.follows) =>
        /\ resp.status = 200
        /\ resp.current_status = "check_delivery"
        /\ StepOf(resp.steps, "check_delivery").status = "in_progress"

\* the request bodies by their current_status and product_name
PostBodiesBy ==
    [s \in StatusValues, pn \in {undefined, "X"} |->
        {body \in PostBodies : body.current_status = s /\ body.product_name = pn}]

\* the POST bodies that slot p merges in this step: those of PostStart(p, body),
\* looked up by the status and product name that the step recorded
MergedBodies(p) ==
    IF inflight[p].pc # "idle" THEN {}
    ELSE LET c == IF creds THEN inflight'[p] ELSE resp'
         IN  {body \in PostBodiesBy[c.reqStatus, c.reqProduct] : PostStart(p, body)}

\* C2: a POST to an existing record leaves every field it does not supply as
\* it was: current_status without current_status, product_name without
\* product_name, the three URL fields without url and url_link.
C2_PartialUpdate ==
    [][orderLinks' # orderLinks =>
       \A p \in Slots : \A body \in MergedBodies(p) :
          LET n == postOrderNumber(body.order_number)
          IN  (~n.threw /\ n.value \in DOMAIN orderLinks) =>
                LET old == orderLinks[n.value]
                    new == orderLinks'[n.value]
                IN  /\ body.current_status = undefined => new.current_status = old.current_status
                    /\ body.product_name = undefined => new.product_name = old.product_name
                    /\ (body.url = undefined /\ body.url_link = undefined) =>
                          /\ new.url_upload = old.url_upload
                          /\ new.url_delivery = old.url_delivery
                          /\ new.url_revision = old.url_revision]_vars

\* a POST of product_name alone has been answered for a record that an
\* earlier POST had moved to check_delivery, and the status is still there
C2_Witness ==
    /\ resp.method = "POST" /\ resp.status = 200
    /\ resp.existed /\ ~resp.overwritten
    /\ resp.reqStatus = undefined
    /\ resp.stored.product_name = "X"
    /\ resp.stored.current_status = "check_delivery"
    /\ resp.stored.url_delivery = "u"

\* the URL stored for a clickable stage
UrlBinding(record, id) ==
    IF id = "upload_photo" THEN record.url_upload
    ELSE IF id = "check_delivery" THEN record.url_delivery
    ELSE record.url_revision

\* C5: in every step list the handler returns, a clickable step has a
\* non-null url iff its index is at most the current status's index and a
\* URL is stored for it; a non-clickable step has url null.
C5_UrlIffReachedAndBound ==
    OrderResponse =>
        \A k \in 1..Len(resp.steps) :
            LET step == resp.steps[k]
                reached == k - 1 <= indexOf(allSteps, resp.current_status)
            IN  IF step.id \in clickableSteps
                THEN (step.url # null) <=> (reached /\ Truthy(UrlBinding(resp.stored, step.id)))
                ELSE step.url = null

\* the tag call of p's POST has returned true
TagReturnedTrue(c) == c.pc = "post_fetch" /\ c.reqStatus = "order_complete" /\ c.tagSuccess = "true"

MarkerCount(key) == CountTag(shopifyTags[replaceHash(key)], MarkerTag)

\* C6: the marker tag never occurs twice in an external order's tag list, and
\* it occurs exactly once after every completing POST whose tag call returned
\* true, the second and later ones included.
C6_TagOnce ==
    /\ \A name \in DOMAIN shopifyTags : CountTag(shopifyTags[name], MarkerTag) <= 1
    /\ \A p \in Slots : TagReturnedTrue(inflight[p]) => MarkerCount(inflight[p].key) = 1
    /\ (resp.method = "POST" /\ resp.tagSuccess = "true") => MarkerCount(resp.key) = 1

\* two completing POSTs of the same order: the tag call of one has returned
\* true and it is answered, the tag call of the other has returned true too
C6_Witness ==
    /\ resp.method = "POST" /\ resp.reqStatus = "order_complete" /\ resp.tagSuccess = "true"
    /\ resp.existed
    /\ \E p \in Slots : TagReturnedTrue(inflight[p]) /\ inflight[p].key = resp.key
    /\ MarkerCount(resp.key) = 1

\* C7: a failed tag call never fails the write: the record is merged before
\* addShopifyOrderTag is called, its current_status stays order_complete
\* after the failure (until another POST writes it), and the POST is
\* answered 200 with success true.
C7_TagFailureNotFatal ==
    /\ \A p \in Slots :
          LET c == inflight[p]
          IN  (c.pc \in {"tag_fetch", "tag_put"} \/ (c.pc = "post_fetch" /\ c.tagSuccess = "false")) =>
                /\ c.key \in DOMAIN orderLinks
                /\ ~c.overwritten => orderLinks[c.key].current_status = "order_complete"
    /\ (resp.method = "POST" /\ resp.tagSuccess = "false") =>
          /\ resp.status = 200
          /\ resp.success
          /\ resp.key \in DOMAIN orderLinks
          /\ ~resp.overwritten => resp.stored.current_status = "order_complete"

\* a completing POST of an existing record, whose tag call failed with the
\* credentials present, has been answered
C7_Witness ==
    /\ creds
    /\ resp.method = "POST" /\ resp.tagSuccess = "false" /\ resp.existed
    /\ resp.status = 200 /\ resp.success
    /\ resp.stored.current_status = "order_complete"

\* C8: shopify_tag_added is true only if addShopifyOrderTag returned true
\* for the request, and false whenever the tag attempt failed.
C8_FlagReportsOutcome ==
    (resp.method = "POST" /\ resp.status = 200) =>
        /\ resp.shopify_tag_added => resp.tagSuccess = "true"
        /\ resp.tagSuccess = "false" => ~resp.shopify_tag_added

\* C9: a POST calls addShopifyOrderTag iff the stored current_status is
\* order_complete after its merge, whether or not the request supplied it.
C9_TagIffMergedComplete ==
    /\ (resp.method = "POST" /\ resp.status = 200) =>
          (resp.mergedStatus = "order_complete" <=> resp.tagSuccess # "none")
    /\ \A p \in Slots :
          inflight[p].pc = "post_fetch" =>
            (inflight[p].mergedStatus = "order_complete" <=> inflight[p].tagSuccess # "none")

\* the step statuses that a stored status prescribes (all pending if it is
\* no stage)
StatusesFollow(steps, status) ==
    \A k \in 1..Len(steps) :
        steps[k].status =
            IF status \notin Stages THEN "pending"
            ELSE IF k - 1 < StageIndex(status) THEN "completed"
            ELSE IF k - 1 = StageIndex(status) THEN "in_progress"
            ELSE "pending"

\* C10: in every 200 response of GET and POST, current_status is the stored
\* record's current_status at that time and the step statuses follow from
\* it, whether or not an external order was fetched.
C10_StatusIsTracked ==
    OrderResponse =>
        /\ resp.current_status = resp.stored.current_status
        /\ Len(resp.steps) = Len(allSteps)
        /\ StatusesFollow(resp.steps, resp.stored.current_status)

\* an order fetched as fulfilled is reported at its tracked stage
C10_Witness ==
    /\ OrderResponse
    /\ resp.fulfillment_status = "fulfilled"
    /\ resp.financial_status = "paid"
    /\ resp.current_status = "upload_photo"
    /\ resp.stored.current_status = "upload_photo"

(***************************************************************************)
(* Properties of the auto-create handler of src/pages/index.tsx (SpecAuto) *)
(***************************************************************************)
\* the values a request supplies as current_status that are no stage:
\* an unknown name and the empty string
InvalidStatuses == {s \in AcStatusValues : s # undefined /\ s \notin Stages}

\* C11: in the validating handler, a POST that supplies a current_status that
\* is not one of the five stages is answered 400 and leaves the store as it
\* was: no record is created and no record's current_status or steps change.
\* (A body with no current_status of its own is read through the prototype
\* chain and is not among these requests.)
C11_InvalidStatusRejected ==
    [][\A order_number \in AcOrderNumbers, current_status \in InvalidStatuses :
          AcPost([order_number |-> order_number, current_status |-> current_status]) =>
              /\ acResp'.method = "POST" /\ acResp'.status = 400
              /\ orders' = orders
              /\ objectPrototype' = objectPrototype]_vars

\* a POST of an unknown status name has been answered 400 'Invalid status'
\* and the record an earlier POST stored still has its status and steps
C11_Witness ==
    /\ acResp.method = "POST" /\ acResp.status = 400
    /\ acResp.error = "Invalid status" /\ acResp.reqStatus = "shipped"
    /\ <<"1">> \in DOMAIN orders
    /\ orders[<<"1">>].current_status = "check_delivery"
    /\ orders[<<"1">>].steps = generateSteps_autoCreate("check_delivery")

\* C18: in the auto-create handler, GET of an order number with no record is
\* answered 200 with current_status upload_photo and inserts a record with
\* that status under the queried key; GET of an existing record is answered
\* with that record and changes neither its current_status nor the keys.
C18_AutoCreate ==
    /\ []((acResp.method = "GET" /\ TruthyStr(acResp.key) /\ ~acResp.hadRecord) =>
            /\ acResp.status = 200
            /\ acResp.current_status = "upload_photo"
            /\ acResp.key \in DOMAIN orders
            /\ orders[acResp.key].order_number = acResp.key
            /\ orders[acResp.key].current_status = "upload_photo")
    /\ [][\A query \in AcOrderNumbers :
              (query \in DOMAIN orders /\ AcGet(query)) =>
                  /\ acResp'.status = 200
                  /\ acResp'.current_status = orders[query].current_status
                  /\ DOMAIN orders' = DOMAIN orders
                  /\ orders'[query].current_status = orders[query].current_status]_vars

(***************************************************************************)
(* Properties of the KV-backed handlers (SpecKv)                           *)
(***************************************************************************)
\* C14: in the KV-backed handlers a null result of fetchShopifyOrder is never
\* fatal to a read: GET ?order=N is still answered 200, with a view built
\* from the tracking record alone.
C14_FetchFailureNotFatal ==
    (kvResp.method = "GET" /\ kvResp.fetched = "null") =>
        /\ kvResp.status = 200
        /\ kvResp.order_number = kvResp.key
        /\ kvResp.current_status = OrElse(kvResp.linkData.current_status, "upload_photo")
        /\ kvResp.financial_status = undefined
        /\ kvResp.fulfillment_status = undefined

(***************************************************************************)
(* Further properties of the handlers of src/api/order-status.ts           *)
(***************************************************************************)
\* C12: after any sequence of requests, the current_status of every stored
\* tracking record is one of the five stages.
C12_StoredStatusIsStage ==
    \A k \in DOMAIN orderLinks : orderLinks[k].current_status \in Stages

\* C13: with the credentials absent, GET of an order that has a tracking
\* record is answered 200; order_number, current_status, product_name and the
\* steps come from the tracking record alone and the external-only fields
\* are absent.
C13_LocalFieldsOnly ==
    (~creds /\ resp.handler = "order-status" /\ resp.method = "GET"
        /\ resp.key \in DOMAIN orderLinks) =>
        /\ resp.status = 200
        /\ resp.order_number = resp.key
        /\ resp.order_id = replaceHash(resp.key)
        /\ resp.current_status = resp.stored.current_status
        /\ resp.product_name = resp.stored.product_name
        /\ resp.url_link = resp.stored.url_delivery
        /\ Len(resp.steps) = Len(allSteps)
        /\ StatusesFollow(resp.steps, resp.stored.current_status)
        /\ StepOf(resp.steps, "upload_photo").url = resp.stored.url_upload
        /\ StepOf(resp.steps, "check_delivery").url = resp.stored.url_delivery
        /\ StepOf(resp.steps, "check_revision").url = resp.stored.url_revision
        /\ resp.financial_status = undefined
        /\ resp.fulfillment_status = undefined

\* without credentials, GET of an order the platform holds answers from the
\* record that two POSTs have built
C13_Witness ==
    /\ ~creds
    /\ resp.handler = "order-status" /\ resp.method = "GET" /\ resp.status = 200
    /\ resp.key = <<"#", "1">>
    /\ resp.current_status = "check_delivery"
    /\ resp.product_name = "X"
    /\ resp.financial_status = undefined

\* C15: a GET without the `order` query parameter is answered 400 with an
\* {error, message} body and never reaches the store lookup.
C15_MissingParamIs400 ==
    (resp.handler = "order-status" /\ resp.method = "GET" /\ resp.paramMissing) =>
        /\ resp.status = 400
        /\ resp.error # undefined /\ resp.hasMessage
        /\ resp.key = NoOrder

\* the request bodies whose order_number is missing or empty
BodiesWithoutOrderNumber == {body \in PostBodies : ~TruthyStr(body.order_number)}

\* C16: a POST whose order_number is missing or empty is answered 400; no
\* record is created or modified, and no external call is made (the handler
\* is not suspended in a fetch and no tag list changes).
C16_MissingOrderNumber ==
    [][\A p \in Slots, body \in BodiesWithoutOrderNumber :
          PostStart(p, body) =>
              /\ resp'.method = "POST" /\ resp'.status = 400
              /\ resp'.error # undefined /\ resp'.hasMessage
              /\ orderLinks' = orderLinks
              /\ shopifyTags' = shopifyTags
              /\ inflight' = inflight]_vars

\* with the credentials present, a POST has been answered 400 and the
\* record an earlier POST stored is there as that POST left it
C16_Witness ==
    /\ creds
    /\ resp.method = "POST" /\ resp.status = 400
    /\ <<"#", "1">> \in DOMAIN orderLinks
    /\ orderLinks[<<"#", "1">>].current_status = "order_complete"
    /\ \A p \in Slots : inflight[p].pc = "idle"

\* C17: GET of an order number with no tracking record is answered 404, and
\* no GET, whatever its result, changes the store's keys or records.
C17_GetNotFound ==
    /\ []((resp.handler = "order-status" /\ resp.method = "GET"
             /\ TruthyStr(resp.key) /\ resp.key \notin DOMAIN orderLinks)
            => resp.status = 404)
    /\ [][((\E p \in Slots, query \in GetOrderParams : GetStart(p, query))
            \/ (\E p \in Slots, net \in NetOutcomes, fin \in FinancialStatuses,
                    ful \in FulfillmentStatuses : GetFetch(p, net, fin, ful)))
           => orderLinks' = orderLinks]_vars

\* C19: a key present in orderLinks stays present after every request.
C19_NeverDeleted ==
    [][\A k \in DOMAIN orderLinks : k \in DOMAIN orderLinks']_vars

\* two records are stored and the request answered last ended in 404
C19_Witness ==
    /\ <<"#", "1">> \in DOMAIN orderLinks
    /\ <<"#", "2">> \in DOMAIN orderLinks
    /\ resp.status = 404

\* C20: every error response (400, 404, 405, 500) that the two handlers of
\* src/api/order-status.ts produce carries an error and a message field.
C20_ErrorShape ==
    (resp.kind = "error" /\ resp.status \in {400, 404, 405, 500}) =>
        (resp.error # undefined /\ resp.hasMessage)

(***************************************************************************)
(* Further properties of the step derivation (SpecSteps)                   *)
(***************************************************************************)
\* C24: for a current status that is not one of the five stages (the empty
\* string and undefined included), every generateSteps variant returns five
\* steps, all pending, with the five stage ids in pipeline order and
\* clickable true exactly for upload_photo, check_delivery and
\* check_revision.
C24_UnknownStatusAllPending ==
    (gs.variant # "none" /\ gs.currentStatus \notin Stages) =>
        /\ Len(gs.out) = 5
        /\ \A k \in 1..Len(gs.out) :
              /\ gs.out[k].status = "pending"
              /\ gs.out[k].id = allSteps[k]
              /\ gs.out[k].clickable =
                    (gs.out[k].id \in {"upload_photo", "check_delivery", "check_revision"})

C24_Witness ==
    /\ gs.variant = "projectId"
    /\ gs.currentStatus = "shipped"
    /\ gs.out[1].status = "pending"
    /\ gs.out[5].status = "pending"

(***************************************************************************)
(* Further properties of the two handlers of src/api/order-status.ts       *)
(***************************************************************************)
\* C21: in the batch listing handler an unavailable upstream (credentials
\* absent, non-OK response, thrown fetch error) is never a top-level failure:
\* GET /shopify-orders still answers 200 with success true, an empty orders
\* list and count 0; and in every 200 response count is the length of orders.
C21_ListingNeverFails ==
    (resp.handler = "shopify-orders" /\ resp.method = "GET") =>
        /\ resp.upstream = "unavailable" =>
              /\ resp.status = 200
              /\ resp.success
              /\ resp.orders = <<>>
              /\ resp.count = 0
        /\ resp.status = 200 => resp.count = Len(resp.orders)

(***************************************************************************)
(* Further properties of the KV-backed handlers (SpecKv)                   *)
(***************************************************************************)
\* C22: in the KV-backed project-id handler a failing store call (kv.get or
\* kv.set throwing) is caught where it is made and treated as "absent": no
\* GET ?order=N, GET ?action=get_all_orders or POST is answered 500.
C22_StoreFailureCaught ==
    (kvHandler = "projectId" /\ kvResp.method \in {"GET", "POST"}) => kvResp.status # 500

\* C25: in the KV-backed url_link handler, whenever POST answers 200 with
\* success true the store holds, under the key of the order number, the
\* merged record the response was built from: the next read of the key gives
\* the same current_status, url_link and product_name. (The store changes
\* only in the step that sends a POST response, so the response in kvResp is
\* always the one of the latest write attempt.)
C25_MergedRecordPersisted ==
    (kvHandler = "urlLink" /\ kvResp.method = "POST" /\ kvResp.status = 200 /\ kvResp.success) =>
        /\ kvResp.key \in DOMAIN kvStore
        /\ kvStore[kvResp.key].current_status = kvResp.linkData.current_status
        /\ kvStore[kvResp.key].url_link = kvResp.linkData.url_link
        /\ kvStore[kvResp.key].product_name = kvResp.linkData.product_name

\* C27: in the KV-backed project-id handler a POST is a kv.get, a merge and
\* a kv.set with no conflict detection: the record a POST merges into is the
\* one its own kv.get returned, and a kv.set leaves under the key exactly
\* that POST's merged record, whatever another POST has stored there since
\* and touching no other key. After two concurrent POSTs the record is the
\* one written by the kv.set that executed last.
C27_LastWriteWins ==
    [][kvHandler = "projectId" =>
       \A p \in Slots :
          LET c == kvInflight[p]
              atKey == IF c.key \in DOMAIN kvStore THEN kvStore[c.key] ELSE EmptyLinkData
          IN  /\ (c.pc = "kv_get" /\ kvInflight'[p].pc = "kv_set") =>
                    /\ kvInflight'[p].read = atKey
                    /\ kvInflight'[p].linkData = kvMerge(kvHandler, atKey, c.body)
                    /\ kvStore' = kvStore
              /\ (c.pc = "kv_set" /\ kvInflight'[p].pc = "idle" /\ kvResp'.status = 200) =>
                    /\ c.key \in DOMAIN kvStore'
                    /\ kvStore'[c.key] = c.linkData
                    /\ c.linkData = kvResp'.linkData
                    /\ \A k \in DOMAIN kvStore' \ {c.key} :
                          k \in DOMAIN kvStore /\ kvStore'[k] = kvStore[k]
              /\ kvStore' # kvStore =>
                    \E q \in Slots : kvInflight[q].pc = "kv_set" /\ kvInflight'[q].pc = "idle"]_vars

\* two POSTs for order 1 ran concurrently; the later kv.set wrote the status
\* alone over the record with the product name that the earlier one stored
C27_Witness ==
    /\ kvHandler = "projectId"
    /\ kvResp.method = "POST" /\ kvResp.status = 200
    /\ kvResp.lostUpdate
    /\ kvResp.key = <<"1">>
    /\ kvStore[<<"1">>].current_status = "order_complete"
    /\ kvStore[<<"1">>].product_name = undefined
    /\ \A p \in Slots : kvInflight[p].pc = "idle"

(***************************************************************************)
(* Further properties of the handler of src/api/order-status.ts (Spec)     *)
(***************************************************************************)
\* C23: the order of a successful POST response is the read-path view: the
\* body a GET for the same order number builds from the same stored record
\* and the same external order equals it field for field, url_link and steps
\* included.
C23_PostViewIsReadView ==
    (resp.handler = "order-status" /\ resp.method = "POST" /\ resp.status = 200) =>
        LET read == getResponse([Idle EXCEPT !.key = resp.key],
                                resp.key :> resp.stored, resp.ext)
        IN  /\ read.order_number = resp.order_number
            /\ read.order_id = resp.order_id
            /\ read.current_status = resp.current_status
            /\ read.url_link = resp.url_link
            /\ read.product_name = resp.product_name
            /\ read.financial_status = resp.financial_status
            /\ read.fulfillment_status = resp.fulfillment_status
            /\ read.steps = resp.steps

\* C26: when a POST that supplies current_status S answers 200, the
\* current_status and the steps of its response are those of S, the record
\* as that POST merged it, also when other POSTs for the same order number
\* ran between its merge and its response.
C26_ResponseReflectsOwnStatus ==
    (resp.handler = "order-status" /\ resp.method = "POST" /\ resp.status = 200
        /\ Truthy(resp.reqStatus)) =>
        /\ resp.current_status = resp.reqStatus
        /\ StatusesFollow(resp.steps, resp.reqStatus)

\* a POST suspended at an await, after its merge
SuspendedPosts == {p \in Slots : inflight[p].pc \in {"tag_fetch", "tag_put", "post_fetch"}}

\* the request bodies that supply no current_status (and so set no URL)
BodiesWithoutStatus == {body \in PostBodies : ~Truthy(body.current_status)}

\* the request bodies that supply a current_status and no product_name
BodiesWithoutProduct ==
    {body \in PostBodies : Truthy(body.current_status) /\ ~Truthy(body.product_name)}

\* C28: every mutation of orderLinks by a POST happens before the handler's
\* first await, so the merge is atomic: the store changes only in the step
\* that starts a POST, never in a step that resumes one. When a POST that set
\* the status is suspended and a second POST for the same order number sets
\* the product name alone (or the other way round), the record holds both
\* new values after the second merge, and until both have answered.
C28_AtomicMerge ==
    [][orderLinks' # orderLinks =>
       /\ nPosts' = nPosts + 1
       /\ \A q \in SuspendedPosts :
             LET c == inflight[q]
             IN  /\ (Truthy(c.reqStatus) /\ orderLinks[c.key].current_status = c.reqStatus) =>
                       \A p \in Slots : \A body \in MergedBodies(p) \cap BodiesWithoutStatus :
                          inflight'[p].key = c.key =>
                              /\ orderLinks'[c.key].current_status = c.reqStatus
                              /\ Truthy(body.product_name) =>
                                    orderLinks'[c.key].product_name = body.product_name
                 /\ (Truthy(c.reqProduct) /\ orderLinks[c.key].product_name = c.reqProduct) =>
                       \A p \in Slots : \A body \in MergedBodies(p) \cap BodiesWithoutProduct :
                          inflight'[p].key = c.key =>
                              /\ orderLinks'[c.key].product_name = c.reqProduct
                              /\ orderLinks'[c.key].current_status = body.current_status]_vars

\* two POSTs for order 1 overlapped: the one answered last had set the status
\* alone, the other merged the product name while the first was suspended,
\* and the record holds both values when both have answered
C28_Witness ==
    /\ resp.method = "POST" /\ resp.status = 200
    /\ resp.overwritten
    /\ resp.reqStatus = "check_delivery" /\ resp.reqProduct = undefined
    /\ nPosts = 2
    /\ \A p \in Slots : inflight[p].pc = "idle"
    /\ orderLinks[resp.key].current_status = "check_delivery"
    /\ orderLinks[resp.key].product_name = "X"

\* the three URL fields of the record under key before a merge: those of the
\* stored record, '' for a record the POST is about to create
UrlsBefore(links, key) ==
    IF key \in DOMAIN links
    THEN [url_upload |-> links[key].url_upload, url_delivery |-> links[key].url_delivery,
          url_revision |-> links[key].url_revision]
    ELSE [url_upload |-> "", url_delivery |-> "", url_revision |-> ""]

\* the request bodies that supply a link
BodiesWithLink == {body \in PostBodies : Truthy(body.url) \/ Truthy(body.url_link)}

\* C29: a POST that supplies a link (url, or url_link when url is absent)
\* with current_status S stores the link in the one URL field that S selects
\* (url_upload for upload_photo, url_delivery for check_delivery,
\* url_revision for check_revision) and leaves the other two as they were;
\* for S in_progress, order_complete or unrecognized, and without a
\* current_status, all three URL fields stay as they were.
C29_LinkStoredByStatus ==
    [][orderLinks' # orderLinks =>
       \A p \in Slots : \A body \in MergedBodies(p) \cap BodiesWithLink :
             LET key == postOrderNumber(body.order_number).value
                 old == UrlsBefore(orderLinks, key)
                 new == orderLinks'[key]
                 link == IF Truthy(body.url) THEN body.url ELSE body.url_link
                 S == body.current_status
             IN  /\ new.url_upload = IF S = "upload_photo" THEN link ELSE old.url_upload
                 /\ new.url_delivery = IF S = "check_delivery" THEN link ELSE old.url_delivery
                 /\ new.url_revision = IF S = "check_revision" THEN link ELSE old.url_revision]_vars

\* a POST with check_revision and url_link 'v' alone was answered for a
\* record whose delivery URL an earlier POST had set: 'v' is the revision
\* URL, the delivery URL is still 'u'
C29_Witness ==
    /\ resp.method = "POST" /\ resp.status = 200
    /\ resp.existed /\ ~resp.overwritten
    /\ resp.reqStatus = "check_revision"
    /\ resp.stored.url_revision = "v"
    /\ resp.stored.url_delivery = "u"
    /\ resp.stored.url_upload = ""

\* the tag list of the external order that the POST in slot p works on
TagsOf(p) == shopifyTags[replaceHash(inflight[p].key)]

\* C30: addShopifyOrderTag only appends. When it issues an update, the tag
\* list it sends is every tag the external order had when it was read, in
\* the same order, followed by the marker tag; the update stores that list
\* and touches no other order. It issues no update when the marker is
\* already there, when the credentials are absent or when the order is not
\* found; nothing else changes a tag list.
C30_TagAppendOnly ==
    /\ [](\A p \in Slots : inflight[p].pc \in {"tag_fetch", "tag_put"} => creds)
    /\ [][/\ \A p \in Slots :
                (inflight[p].pc = "tag_fetch" /\ inflight'[p].pc = "tag_put") =>
                    /\ replaceHash(inflight[p].key) \in DOMAIN shopifyTags
                    /\ \A i \in 1..Len(TagsOf(p)) : TagsOf(p)[i] # MarkerTag
                    /\ platformTags(inflight'[p].newTags) = Append(TagsOf(p), MarkerTag)
          /\ shopifyTags' # shopifyTags =>
                \E p \in Slots :
                    /\ inflight[p].pc = "tag_put"
                    /\ inflight'[p].pc = "post_fetch"
                    /\ shopifyTags' = [shopifyTags EXCEPT
                          ![replaceHash(inflight[p].key)] = platformTags(inflight[p].newTags)]]_vars

\* the one POST so far completed order 1 and its update was stored: the two
\* tags the order had, in their order, then the marker
C30_Witness ==
    /\ nPosts = 1
    /\ resp.method = "POST" /\ resp.status = 200 /\ resp.tagSuccess = "true"
    /\ shopifyTags[<<"1">>] = <<"vip", "rush", MarkerTag>>

====
